---- MODULE Spec2Model ----
(***************************************************************************)
(* Model of the pdf2text pipeline (src/poppler_and_pymupdf):               *)
(*   main.text_from_pdf  ->  extract_headings_from_toc (v3, "Stage A")     *)
(*                       ->  pdftotext_async                               *)
(*                       ->  add_headings ("Stage B" + report)             *)
(* Python str values are sequences of one-character strings, so that       *)
(* split / strip / lower / NFKC / substring are computed, not assumed.     *)
(* Optional values: None is <<>> and a present value v is <<v>>.           *)
(***************************************************************************)
EXTENDS Integers, Sequences, FiniteSets, TLC

\* ------------------------------------------------------------------ bounds
MaxToc == 2        \* entries in the document's table of contents
MaxBlocks == 3     \* raw blocks on the page
MaxLines == 3      \* lines of plain text on the page

\* ------------------------------------------------------- Python str model
None == <<>>
Some(v) == <<v>>
IsSet(o) == o /= <<>>
Val(o) == o[1]

NL == "\n"
FF == "\f"
FWA == "FWA"   \* stands for U+FF21 FULLWIDTH LATIN CAPITAL LETTER A

\* str.isspace for the characters of the model
IsSpace(c) == c \in {" ", NL, FF}

Min(a, b) == IF a < b THEN a ELSE b
Max(a, b) == IF a > b THEN a ELSE b
Abs(x) == IF x < 0 THEN -x ELSE x

RECURSIVE LStrip(_)
LStrip(s) ==
  IF s = <<>> THEN <<>>
  ELSE IF IsSpace(Head(s)) THEN LStrip(Tail(s)) ELSE s

RECURSIVE RStrip(_)
RStrip(s) ==
  IF s = <<>> THEN <<>>
  ELSE IF IsSpace(s[Len(s)]) THEN RStrip(SubSeq(s, 1, Len(s) - 1)) ELSE s

\* str.strip()
Strip(s) == RStrip(LStrip(s))

\* str.split(): the maximal runs of non-whitespace characters, in order
RECURSIVE SplitAcc(_, _, _)
SplitAcc(s, cur, acc) ==
  IF s = <<>> THEN (IF cur = <<>> THEN acc ELSE Append(acc, cur))
  ELSE IF IsSpace(Head(s))
       THEN SplitAcc(Tail(s), <<>>, IF cur = <<>> THEN acc ELSE Append(acc, cur))
       ELSE SplitAcc(Tail(s), Append(cur, Head(s)), acc)

Split(s) == SplitAcc(s, <<>>, <<>>)

\* sep.join(items)
RECURSIVE Join(_, _)
Join(sep, items) ==
  IF items = <<>> THEN <<>>
  ELSE IF Len(items) = 1 THEN items[1]
  ELSE items[1] \o sep \o Join(sep, Tail(items))

\* unicodedata.normalize("NFKC", s): compatibility characters are replaced
NFKCChar(c) == IF c = FWA THEN "A" ELSE c
NFKC(s) == [i \in 1..Len(s) |-> NFKCChar(s[i])]

\* str.lower()
LowerChar(c) == IF c = "A" THEN "a" ELSE IF c = FWA THEN "fwa" ELSE c
Lower(s) == [i \in 1..Len(s) |-> LowerChar(s[i])]

\* needle in haystack
Contains(haystack, needle) ==
  \E i \in 0..(Len(haystack) - Len(needle)) :
    SubSeq(haystack, i + 1, i + Len(needle)) = needle

\* str.splitlines(keepends=True)
RECURSIVE SplitLinesAcc(_, _, _)
SplitLinesAcc(s, cur, acc) ==
  IF s = <<>> THEN (IF cur = <<>> THEN acc ELSE Append(acc, cur))
  ELSE IF Head(s) \in {NL, FF}
       THEN SplitLinesAcc(Tail(s), <<>>, Append(acc, Append(cur, Head(s))))
       ELSE SplitLinesAcc(Tail(s), Append(cur, Head(s)), acc)

SplitLines(s) == SplitLinesAcc(s, <<>>, <<>>)

\* str.split("\f")
RECURSIVE SplitOnAcc(_, _, _, _)
SplitOnAcc(s, sep, cur, acc) ==
  IF s = <<>> THEN Append(acc, cur)
  ELSE IF Head(s) = sep
       THEN SplitOnAcc(Tail(s), sep, <<>>, Append(acc, cur))
       ELSE SplitOnAcc(Tail(s), sep, Append(cur, Head(s)), acc)

SplitOn(s, sep) == SplitOnAcc(s, sep, <<>>, <<>>)

\* set(list)
ToSet(items) == {items[i] : i \in 1..Len(items)}

\* ---------------------------------------------- extract_headings_from_toc
normalise_lookup_text(input_text) ==
  Strip(Lower(NFKC(Join(<<" ">>, Split(input_text)))))

LINK_GOTO == "LINK_GOTO"
LINK_NAMED == "LINK_NAMED"

\* TableOfContentsEntry(*x) for one row of doc.get_toc(simple=False)
TableOfContentsEntry(heading_level, text, page_num, link_data) ==
  [heading_level |-> heading_level, text |-> text, page_num |-> page_num,
   link_data |-> link_data,
   heading_found_in_text |-> FALSE, match_reason |-> "None",
   text_before |-> None, matching_page_text |-> None, text_after |-> None]

\* all spans of a block, line by line (the nested loops of the index builder)
RECURSIVE BlockSpans(_)
BlockSpans(lines) ==
  IF lines = <<>> THEN <<>> ELSE Head(lines).spans \o BlockSpans(Tail(lines))

RECURSIVE MaxFontSize(_, _)
MaxFontSize(spans, acc) ==
  IF spans = <<>> THEN acc
  ELSE MaxFontSize(Tail(spans), Max(Head(spans).size, acc))

SpanTexts(spans) == [i \in 1..Len(spans) |-> spans[i].text]

\* blocks = [b for b in blocks if b["type"] == 0]
RECURSIVE TextBlocksOnly(_)
TextBlocksOnly(raw) ==
  IF raw = <<>> THEN <<>>
  ELSE IF Head(raw).type = 0
       THEN <<Head(raw)>> \o TextBlocksOnly(Tail(raw))
       ELSE TextBlocksOnly(Tail(raw))

\* the per-block derived fields; block_index is 0-based as in the source
BuildBlockIndex(raw) ==
  LET kept == TextBlocksOnly(raw)
  IN [k \in 1..Len(kept) |->
        [block_index |-> k - 1,
         bbox |-> kept[k].bbox,
         max_font_size_in_block |-> MaxFontSize(BlockSpans(kept[k].lines), 0),
         full_block_text |->
           Strip(Join(<<" ">>, SpanTexts(BlockSpans(kept[k].lines))))]]

\* match_checks of one block against the normalised title
MatchChecks(toc_item_text_lookup, block) ==
  LET block_text_lookup == normalise_lookup_text(block.full_block_text)
  IN IF toc_item_text_lookup = block_text_lookup
     THEN [toc_text_matches_exactly |-> TRUE, contains_toc_text |-> TRUE]
     ELSE IF Contains(block_text_lookup, toc_item_text_lookup)
          THEN [toc_text_matches_exactly |-> FALSE, contains_toc_text |-> TRUE]
          ELSE [toc_text_matches_exactly |-> FALSE, contains_toc_text |-> FALSE]

RECURSIVE SelectBlocks(_, _, _)
SelectBlocks(blocks, lookup, exact) ==
  IF blocks = <<>> THEN <<>>
  ELSE LET mc == MatchChecks(lookup, Head(blocks))
           keep == IF exact THEN mc.toc_text_matches_exactly
                   ELSE mc.contains_toc_text
       IN (IF keep THEN <<Head(blocks)>> ELSE <<>>)
            \o SelectBlocks(Tail(blocks), lookup, exact)

ExactMatchBlocks(blocks, lookup) == SelectBlocks(blocks, lookup, TRUE)
ContainingBlocks(blocks, lookup) == SelectBlocks(blocks, lookup, FALSE)

\* list.sort(key=...): stable, ascending on a key <<k1, k2>>
KeyLeq(a, b) == a[1] < b[1] \/ (a[1] = b[1] /\ a[2] <= b[2])

RECURSIVE InsertSorted(_, _)
InsertSorted(sorted, x) ==
  IF sorted = <<>> THEN <<x>>
  ELSE IF KeyLeq(Head(sorted).key, x.key)
       THEN <<Head(sorted)>> \o InsertSorted(Tail(sorted), x)
       ELSE <<x>> \o sorted

RECURSIVE SortKeyed(_, _)
SortKeyed(items, acc) ==
  IF items = <<>> THEN acc
  ELSE SortKeyed(Tail(items), InsertSorted(acc, Head(items)))

\* variant: the exact blocks are left in block order (font size ignored)
SortExactIgnoringFont(bs) == bs

\* key=lambda b: (-b["max_font_size_in_block"], b["block_index"])
SortExact(bs) ==
  LET keyed == [i \in 1..Len(bs) |->
                  [key |-> <<0 - bs[i].max_font_size_in_block, bs[i].block_index>>,
                   val |-> bs[i]]]
      sorted == SortKeyed(keyed, <<>>)
  IN [i \in 1..Len(sorted) |-> sorted[i].val]

\* variant: the containing blocks are ordered by top-y alone
SortByTopY(bs, target_y) ==
  LET keyed == [i \in 1..Len(bs) |-> [key |-> <<bs[i].bbox[2], 0>>, val |-> bs[i]]]
      sorted == SortKeyed(keyed, <<>>)
  IN [i \in 1..Len(sorted) |-> sorted[i].val]

\* key=lambda b, y=target_y: abs(b["bbox"][1] - y)
SortByDistance(bs, target_y) ==
  LET keyed == [i \in 1..Len(bs) |->
                  [key |-> <<Abs(bs[i].bbox[2] - target_y), 0>>, val |-> bs[i]]]
      sorted == SortKeyed(keyed, <<>>)
  IN [i \in 1..Len(sorted) |-> sorted[i].val]

\* target_y: set only for a LINK_GOTO link whose "to" point is present
TargetY(link_data) ==
  IF link_data.kind = LINK_GOTO /\ IsSet(link_data.to)
  THEN Some(Val(link_data.to).y)
  ELSE None

\* variant: the declared title is replaced by the text of the matched block
WithMatchOverwritingTitle(toc_item, blocks, matched_block, reason) ==
  LET idx == matched_block.block_index
  IN [toc_item EXCEPT
        !.text = matched_block.full_block_text,
        !.heading_found_in_text = TRUE,
        !.match_reason = reason,
        !.matching_page_text = Some(matched_block.full_block_text),
        !.text_before = IF idx /= 0 THEN Some(blocks[idx].full_block_text)
                        ELSE @,
        !.text_after = IF idx + 1 < Len(blocks)
                       THEN Some(blocks[idx + 2].full_block_text)
                       ELSE @]

\* the entry with the fields a match writes
WithMatch(toc_item, blocks, matched_block, reason) ==
  LET idx == matched_block.block_index
  IN [toc_item EXCEPT
        !.heading_found_in_text = TRUE,
        !.match_reason = reason,
        !.matching_page_text = Some(matched_block.full_block_text),
        !.text_before = IF idx /= 0 THEN Some(blocks[idx].full_block_text)
                        ELSE @,
        !.text_after = IF idx + 1 < Len(blocks)
                       THEN Some(blocks[idx + 2].full_block_text)
                       ELSE @]

\* one iteration of the loop over toc: the entry as left by the iteration and
\* the block it matched (None when nothing matched)
ResolveTocItem(toc_item, blocks) ==
  LET lookup == normalise_lookup_text(toc_item.text)
      exact_match_blocks == ExactMatchBlocks(blocks, lookup)
      containing_blocks == ContainingBlocks(blocks, lookup)
      target_y == TargetY(toc_item.link_data)
  IN IF exact_match_blocks /= <<>>
     THEN LET matched_block == SortExact(exact_match_blocks)[1]
          IN [item |-> WithMatch(toc_item, blocks, matched_block,
                                 IF Len(exact_match_blocks) = 1
                                 THEN "SINGLE_PERFECT_MATCH"
                                 ELSE "LARGEST_FONT_PERFECT_MATCH"),
              matched |-> Some(matched_block.block_index)]
     ELSE IF containing_blocks /= <<>>
     THEN LET ordered == IF IsSet(target_y)
                         THEN SortByDistance(containing_blocks, Val(target_y))
                         ELSE containing_blocks
              matched_block == ordered[1]
          IN [item |-> WithMatch(toc_item, blocks, matched_block,
                                 "APPROX_MATCH_CLOSEST_TO_TARGET"),
              matched |-> Some(matched_block.block_index)]
     ELSE [item |-> [toc_item EXCEPT !.match_reason = "NO_MATCH"],
           matched |-> None]

\* ------------------------------------------------------------ add_headings
SUCCESS == "SUCCESS"
FAILED_TOC_ITEM_NOT_FOUND == "FAILED_TOC_ITEM_NOT_FOUND"
FAILED_TOC_ITEM_NOT_MATCHED == "FAILED_TOC_ITEM_NOT_MATCHED"
TocItemStatus == {SUCCESS, FAILED_TOC_ITEM_NOT_FOUND, FAILED_TOC_ITEM_NOT_MATCHED}

\* jaccard_sim: len(intersection) / len(union) as the fraction <<num, den>>;
\* the division raises ZeroDivisionError when the union is empty
jaccard_sim(set1, set2) ==
  LET intersection == set1 \cap set2
      union == set1 \cup set2
  IN [raises |-> Cardinality(union) = 0,
      value |-> <<Cardinality(intersection), Cardinality(union)>>]

\* exact arithmetic on fractions <<num, den>> with den > 0
FracAdd(a, b) == <<a[1] * b[2] + b[1] * a[2], a[2] * b[2]>>
FracLess(a, b) == a[1] * b[2] < b[1] * a[2]
FracEq(a, b) == a[1] * b[2] = b[1] * a[2]

RECURSIVE FracSum(_)
FracSum(fs) == IF fs = <<>> THEN <<0, 1>> ELSE FracAdd(Head(fs), FracSum(Tail(fs)))

\* statistics.mean(individ_scores)
Mean(fs) == LET t == FracSum(fs) IN <<t[1], t[2] * Len(fs)>>

\* xs[-k:]  (xs[-0:] is the whole list)
LastK(xs, k) ==
  IF k = 0 \/ k >= Len(xs) THEN xs ELSE SubSeq(xs, Len(xs) - k + 1, Len(xs))

\* xs[:k]
FirstK(xs, k) == SubSeq(xs, 1, Min(k, Len(xs)))

\* "".join(lines)
Concat(lines) == Join(<<>>, lines)

\* Python truthiness of an Optional[str]
Truthy(opt) == IsSet(opt) /\ Val(opt) /= <<>>

\* one jaccard_sim call: its arguments and what it did
Call(set1, set2) == [set1 |-> set1, set2 |-> set2, result |-> jaccard_sim(set1, set2)]

\* the jaccard_sim calls made for candidate line loc (0-based), in call order
IndividScores(toc_item, page_text_lines, loc) ==
  LET before ==
        IF Truthy(toc_item.text_before) /\ loc /= 0
        THEN LET toc_before_words == Split(Strip(Val(toc_item.text_before)))
                 text_before_words ==
                   LastK(Split(Concat(SubSeq(page_text_lines, 1, loc))),
                         Len(toc_before_words))
             IN <<Call(ToSet(text_before_words), ToSet(toc_before_words))>>
        ELSE <<>>
      self ==
        <<Call(ToSet(Split(page_text_lines[loc + 1])),
               ToSet(Split(toc_item.text)))>>
      after ==
        IF Truthy(toc_item.text_after) /\ loc + 1 /= Len(page_text_lines)
        THEN LET toc_after_words == Split(Val(toc_item.text_after))
                 text_after_words ==
                   FirstK(Split(Concat(SubSeq(page_text_lines, loc + 2,
                                              Len(page_text_lines)))),
                          Len(toc_after_words))
             IN <<Call(ToSet(text_after_words), ToSet(toc_after_words))>>
        ELSE <<>>
  IN before \o self \o after

AnyRaises(calls) == \E i \in 1..Len(calls) : calls[i].result.raises

\* the calls made for the candidates before the k-th, in call order
RECURSIVE CallsBefore(_, _)
CallsBefore(calls, k) ==
  IF k <= 1 THEN <<>> ELSE CallsBefore(calls, k - 1) \o calls[k - 1]

\* position of the first call that raises
FirstRaising(cs) ==
  CHOOSE i \in 1..Len(cs) :
    cs[i].result.raises /\ \A j \in 1..(i - 1) : ~cs[j].result.raises

\* variant: the lines are searched for the normalised title
RECURSIVE PotentialHeadingLocationsNormalised(_, _, _)
PotentialHeadingLocationsNormalised(page_text_lines, text, idx) ==
  IF idx >= Len(page_text_lines) THEN <<>>
  ELSE (IF Contains(normalise_lookup_text(page_text_lines[idx + 1]),
                    normalise_lookup_text(text))
        THEN <<idx>> ELSE <<>>)
         \o PotentialHeadingLocationsNormalised(page_text_lines, text, idx + 1)

\* idx for idx, line in enumerate(page_text_lines) if toc_item.text in line
RECURSIVE PotentialHeadingLocations(_, _, _)
PotentialHeadingLocations(page_text_lines, text, idx) ==
  IF idx >= Len(page_text_lines) THEN <<>>
  ELSE (IF Contains(page_text_lines[idx + 1], text) THEN <<idx>> ELSE <<>>)
         \o PotentialHeadingLocations(page_text_lines, text, idx + 1)

\* max(scores)
RECURSIVE MaxScore(_)
MaxScore(scores) ==
  IF Len(scores) = 1 THEN scores[1]
  ELSE LET m == MaxScore(Tail(scores))
       IN IF FracLess(scores[1], m) THEN m ELSE scores[1]

\* scores.index(max_score): position (1-based here) of the first occurrence
FirstIndexOf(scores, m) ==
  CHOOSE i \in 1..Len(scores) :
    /\ FracEq(scores[i], m)
    /\ \A j \in 1..(i - 1) : ~FracEq(scores[j], m)

\* doc_text[i] with Python's index rules: negative wraps, out of range raises
PyIndexOk(xs, i) == 0 - Len(xs) <= i /\ i < Len(xs)
PyIndex(xs, i) == IF i >= 0 THEN xs[i + 1] ELSE xs[Len(xs) + i + 1]

\* {"status": status} | asdict(toc_item)
ReportRecord(status, toc_item) ==
  [status |-> status,
   heading_level |-> toc_item.heading_level, text |-> toc_item.text,
   page_num |-> toc_item.page_num, link_data |-> toc_item.link_data,
   heading_found_in_text |-> toc_item.heading_found_in_text,
   match_reason |-> toc_item.match_reason,
   text_before |-> toc_item.text_before,
   matching_page_text |-> toc_item.matching_page_text,
   text_after |-> toc_item.text_after]

\* one iteration of the loop of add_headings over toc:
\*   path        where the iteration ends (a continue, a raise, or its last line)
\*   page_read   doc_text was indexed
\*   locations, scores, heading_location   the locals it computed
\*   calls       the jaccard_sim calls it made, in order
NoLocals == [path |-> "none", page_read |-> FALSE, locations |-> <<>>,
             scores |-> <<>>, heading_location |-> None, calls |-> <<>>]

\* lines 63-127: the entry was resolved by extract_headings_from_toc
LocateResolved(toc_item, doc_text) ==
  IF ~PyIndexOk(doc_text, toc_item.page_num - 1)
  THEN [NoLocals EXCEPT !.path = "IndexError", !.page_read = TRUE]
  ELSE
    LET page_text == PyIndex(doc_text, toc_item.page_num - 1)
        page_text_lines == SplitLines(page_text)
        locs == PotentialHeadingLocations(page_text_lines, toc_item.text, 0)
    IN IF locs = <<>>
       THEN [NoLocals EXCEPT !.path = "NOT_MATCHED", !.page_read = TRUE]
       ELSE
         LET calls == [k \in 1..Len(locs) |->
                         IndividScores(toc_item, page_text_lines, locs[k])]
             bad == {k \in 1..Len(locs) : AnyRaises(calls[k])}
         IN IF bad /= {}
            THEN LET first == CHOOSE k \in bad : \A j \in bad : k <= j
                 IN [NoLocals EXCEPT
                       !.path = "ZeroDivisionError", !.page_read = TRUE,
                       !.locations = locs,
                       !.calls = CallsBefore(calls, first)
                                   \o SubSeq(calls[first], 1, FirstRaising(calls[first]))]
            ELSE
              LET scores == [k \in 1..Len(locs) |->
                               Mean([c \in 1..Len(calls[k]) |->
                                       calls[k][c].result.value])]
                  max_score == MaxScore(scores)
                  max_score_idx == FirstIndexOf(scores, max_score)
              IN [path |-> "LOCATED", page_read |-> TRUE, locations |-> locs,
                  scores |-> scores,
                  heading_location |-> Some(locs[max_score_idx]),
                  calls |-> CallsBefore(calls, Len(locs) + 1)]

\* variant: the heading_found_in_text check is missing
LocateTocItemUnchecked(toc_item, doc_text) == LocateResolved(toc_item, doc_text)

\* lines 52-61, then the rest of the iteration
LocateTocItem(toc_item, doc_text) ==
  IF ~toc_item.heading_found_in_text
  THEN [NoLocals EXCEPT !.path = "NOT_FOUND"]
  ELSE LocateResolved(toc_item, doc_text)

\* ------------------------------------------------------------------ inputs
RECURSIVE SeqsUpTo(_, _)
SeqsUpTo(S, n) ==
  IF n = 0 THEN {<<>>}
  ELSE LET shorter == SeqsUpTo(S, n - 1)
       IN shorter \cup {Append(q, x) : q \in {r \in shorter : Len(r) = n - 1}, x \in S}

Span(text, size) == [text |-> text, size |-> size]
Line(spans) == [spans |-> spans]
RawBlock(type, y0, lines) == [type |-> type, bbox |-> <<0, y0, 0, 0>>, lines |-> lines]

\* what page.get_text("dict", sort=True) can hold: text blocks (type 0) with
\* their lines and spans, and image blocks (type 1)
RawBlocks ==
  { RawBlock(0, 1, <<Line(<<Span(<<"a">>, 1)>>)>>),
    RawBlock(0, 3, <<Line(<<Span(<<FWA, " ">>, 2)>>)>>),
    RawBlock(0, 0, <<Line(<<Span(<<"a">>, 1)>>), Line(<<Span(<<"b">>, 2)>>)>>),
    RawBlock(0, 4, <<Line(<<Span(<<"b">>, 1), Span(<<"a">>, 1)>>)>>),
    RawBlock(0, 2, <<>>),
    RawBlock(1, 2, <<>>) }

RawPages == SeqsUpTo(RawBlocks, MaxBlocks)

GotoPoint == [kind |-> LINK_GOTO, to |-> Some([y |-> 3])]
GotoNoPoint == [kind |-> LINK_GOTO, to |-> None]
Named == [kind |-> LINK_NAMED, to |-> None]

TocRow(text, link_data) ==
  [heading_level |-> 1, text |-> text, page_num |-> 1, link_data |-> link_data]

\* rows of doc.get_toc(simple=False): [level, title, page, dest]
TocRows ==
  { TocRow(<<"a">>, GotoPoint), TocRow(<<"a">>, Named),
    TocRow(<<"A">>, GotoNoPoint), TocRow(<<>>, GotoPoint) }

Docs == [toc : SeqsUpTo(TocRows, MaxToc), pages : {<<p>> : p \in RawPages}]

NoDoc == [toc |-> <<>>, pages |-> <<>>]

\* pdftotext -layout output: each page's lines, then a form feed
LineTexts == { <<"a", NL>>, <<"b", " ", "a", NL>>, <<NL>> }
PageTexts == {Concat(ls) : ls \in SeqsUpTo(LineTexts, MaxLines)}
Stdouts == {p \o <<FF>> : p \in PageTexts}

\* ------------------------------------------------------------------- state
VARIABLES
  pc,              \* position of text_from_pdf
  doc,             \* the opened document (its ToC rows and its pages' blocks)
  toc,             \* list[TableOfContentsEntry]
  stage_a_done,    \* entries the loop of extract_headings_from_toc has passed
  blocks,          \* extract_headings_from_toc: blocks of the last iteration
  matched,         \* ... and the block_index it matched (None if none)
  doc_text,        \* pages of plain text returned by pdftotext_async
  process_report,  \* add_headings: status_counts and per_toc_item
  stage_b_done,    \* entries the loop of add_headings has passed
  located,         \* add_headings: the locals of the last iteration
  result,          \* what add_headings returned (None: no return statement)
  output,          \* what text_from_pdf wrote to the output file
  error,           \* the exception that ended the run, or "none"
  returncode       \* exit status of the pdftotext process (None: not run)

vars == <<pc, doc, toc, stage_a_done, blocks, matched, doc_text, process_report,
          stage_b_done, located, result, output, error, returncode>>

EmptyReport ==
  [status_counts |-> [s \in TocItemStatus |-> 0], per_toc_item |-> <<>>]

Init ==
  /\ pc = "open"
  /\ doc \in Docs
  /\ toc = <<>>
  /\ stage_a_done = 0
  /\ blocks = <<>>
  /\ matched = None
  /\ doc_text = <<>>
  /\ process_report = EmptyReport
  /\ stage_b_done = 0
  /\ located = NoLocals
  /\ result = None
  /\ output = None
  /\ error = "none"
  /\ returncode = None

\* extract_headings_from_toc, lines 67-69: build the entries from the ToC rows
BuildToc ==
  /\ pc = "open"
  /\ toc' = [i \in 1..Len(doc.toc) |->
               TableOfContentsEntry(doc.toc[i].heading_level, doc.toc[i].text,
                                    doc.toc[i].page_num, doc.toc[i].link_data)]
  /\ pc' = "extract_headings_from_toc"
  /\ UNCHANGED <<returncode, doc, stage_a_done, blocks, matched, doc_text, process_report,
                 stage_b_done, located, result, output, error>>

\* extract_headings_from_toc, lines 70-165: one iteration of the loop
ResolveNext ==
  /\ pc = "extract_headings_from_toc"
  /\ stage_a_done < Len(toc)
  /\ LET i == stage_a_done + 1
         index == BuildBlockIndex(doc.pages[toc[i].page_num])
         r == ResolveTocItem(toc[i], index)
     IN /\ blocks' = index
        /\ matched' = r.matched
        /\ toc' = [toc EXCEPT ![i] = r.item]
  /\ stage_a_done' = stage_a_done + 1
  /\ UNCHANGED <<returncode, pc, doc, doc_text, process_report, stage_b_done, located,
                 result, output, error>>

\* extract_headings_from_toc, line 167: return toc (the locals go away; main
\* does not use doc again)
ReturnToc ==
  /\ pc = "extract_headings_from_toc"
  /\ stage_a_done = Len(toc)
  /\ pc' = "pdftotext"
  /\ blocks' = <<>>
  /\ matched' = None
  /\ doc' = NoDoc
  /\ UNCHANGED <<returncode, toc, stage_a_done, doc_text, process_report, stage_b_done,
                 located, result, output, error>>

\* pdftotext_async: the process exits 0 and its stdout is split on form feeds
PdftotextOk ==
  /\ pc = "pdftotext"
  /\ returncode' = Some(0)
  /\ \E stdout \in Stdouts : doc_text' = SplitOn(stdout, FF)
  /\ pc' = "add_headings"
  /\ UNCHANGED <<doc, toc, stage_a_done, blocks, matched, process_report,
                 stage_b_done, located, result, output, error>>

\* variant: the return code is not looked at and whatever stdout holds is
\* split and returned
PdftotextFailureIgnored ==
  /\ pc = "pdftotext"
  /\ returncode' = Some(1)
  /\ \E stdout \in Stdouts : doc_text' = SplitOn(stdout, FF)
  /\ pc' = "add_headings"
  /\ UNCHANGED <<doc, toc, stage_a_done, blocks, matched, process_report,
                 stage_b_done, located, result, output, error>>

\* pdftotext_async: a non-zero return code raises RuntimeError, which
\* text_from_pdf does not catch
PdftotextFails ==
  /\ pc = "pdftotext"
  /\ returncode' = Some(1)
  /\ pc' = "raised"
  /\ error' = "RuntimeError"
  /\ UNCHANGED <<doc, toc, stage_a_done, blocks, matched, doc_text,
                 process_report, stage_b_done, located, result, output>>

Count(report, status) ==
  [report EXCEPT !.status_counts[status] = @ + 1]

\* add_headings, lines 52-127: one iteration of the loop
LocateNext ==
  /\ pc = "add_headings"
  /\ stage_b_done < Len(toc)
  /\ LET toc_item == toc[stage_b_done + 1]
         r == LocateTocItem(toc_item, doc_text)
     IN /\ located' = r
        /\ IF r.path = "NOT_FOUND"
           THEN /\ process_report' =
                     [Count(process_report, FAILED_TOC_ITEM_NOT_FOUND) EXCEPT
                        !.per_toc_item =
                           Append(@, ReportRecord(FAILED_TOC_ITEM_NOT_FOUND, toc_item))]
                /\ UNCHANGED <<pc, error>>
           ELSE IF r.path = "NOT_MATCHED"
           THEN /\ process_report' =
                     [Count(process_report, FAILED_TOC_ITEM_NOT_MATCHED) EXCEPT
                        !.per_toc_item =
                           Append(@, ReportRecord(FAILED_TOC_ITEM_NOT_MATCHED, toc_item))]
                /\ UNCHANGED <<pc, error>>
           ELSE IF r.path = "LOCATED"
           THEN UNCHANGED <<process_report, pc, error>>
           ELSE /\ pc' = "raised"
                /\ error' = r.path
                /\ UNCHANGED process_report
        /\ stage_b_done' = IF r.path \in {"NOT_FOUND", "NOT_MATCHED", "LOCATED"}
                           THEN stage_b_done + 1 ELSE stage_b_done
  /\ UNCHANGED <<returncode, doc, toc, stage_a_done, blocks, matched, doc_text, result, output>>

\* add_headings: the loop ends and the function body ends with it; there is
\* no return statement, so the call evaluates to None
AddHeadingsReturns ==
  /\ pc = "add_headings"
  /\ stage_b_done = Len(toc)
  /\ result' = None
  /\ pc' = "add_headings_returned"
  /\ UNCHANGED <<returncode, doc, toc, stage_a_done, blocks, matched, doc_text,
                 process_report, stage_b_done, located, output, error>>

\* text_from_pdf, lines 38-48: unpack the pair, write the text, return the report
UnpackAndExport ==
  /\ pc = "add_headings_returned"
  /\ IF IsSet(result)
     THEN /\ output' = Some(Val(result)[1])
          /\ pc' = "done"
          /\ UNCHANGED error
     ELSE /\ pc' = "raised"
          /\ error' = "TypeError"
          /\ UNCHANGED output
  /\ UNCHANGED <<returncode, doc, toc, stage_a_done, blocks, matched, doc_text,
                 process_report, stage_b_done, located, result>>

Next ==
  \/ BuildToc
  \/ ResolveNext
  \/ ReturnToc
  \/ PdftotextOk
  \/ PdftotextFails
  \/ LocateNext
  \/ AddHeadingsReturns
  \/ UnpackAndExport

Spec == Init /\ [][Next]_vars

\* extract_headings_from_toc on its own: the run up to its return
NextStageA ==
  \/ BuildToc
  \/ ResolveNext
  \/ ReturnToc

SpecStageA == Init /\ [][NextStageA]_vars

\* ============================================================== properties
\* Stage A: the entry and the block index of the iteration just finished
InStageA == pc = "extract_headings_from_toc" /\ stage_a_done >= 1
ResolvedItem == toc[stage_a_done]
Needle == normalise_lookup_text(ResolvedItem.text)
Haystack(k) == normalise_lookup_text(blocks[k].full_block_text)
ExactIdx == {k \in 1..Len(blocks) : Haystack(k) = Needle}
ContainingIdx == {k \in 1..Len(blocks) : Contains(Haystack(k), Needle)}
MatchedIdx == Val(matched) + 1
Font(k) == blocks[k].max_font_size_in_block
TopY(k) == blocks[k].bbox[2]
HasGotoCoordinate(e) == e.link_data.kind = LINK_GOTO /\ e.link_data.to /= None

\* C1: when some block's normalised text equals the normalised title, the
\* entry is resolved to the exact block with the largest font, the earliest
\* such block on a tie, with SINGLE_PERFECT_MATCH for one exact block and
\* LARGEST_FONT_PERFECT_MATCH for several
C1_ExactLargestFontEarliest ==
  (InStageA /\ ExactIdx /= {}) =>
    /\ ResolvedItem.heading_found_in_text
    /\ IsSet(matched)
    /\ MatchedIdx \in ExactIdx
    /\ \A k \in ExactIdx :
         /\ Font(k) <= Font(MatchedIdx)
         /\ Font(k) = Font(MatchedIdx) => MatchedIdx <= k
    /\ ResolvedItem.matching_page_text = Some(blocks[MatchedIdx].full_block_text)
    /\ ResolvedItem.match_reason =
         IF Cardinality(ExactIdx) = 1 THEN "SINGLE_PERFECT_MATCH"
         ELSE "LARGEST_FONT_PERFECT_MATCH"

\* two exact blocks, the larger font on the later one, and a block that
\* merely contains the title
C1_Witness ==
  /\ InStageA
  /\ Cardinality(ExactIdx) >= 2
  /\ IsSet(matched)
  /\ \E k \in ExactIdx : k < MatchedIdx /\ Font(k) < Font(MatchedIdx)
  /\ ContainingIdx \ ExactIdx /= {}
  /\ ResolvedItem.match_reason = "LARGEST_FONT_PERFECT_MATCH"

\* C2: no exact block, some containing block, no goto coordinate: the entry
\* is left unresolved, tier none, nothing captured
C2_NoCoordinateLeavesUnresolved ==
  (InStageA /\ ExactIdx = {} /\ ContainingIdx /= {}
     /\ ~HasGotoCoordinate(ResolvedItem)) =>
    /\ ~ResolvedItem.heading_found_in_text
    /\ ResolvedItem.match_reason = "NO_MATCH"
    /\ ResolvedItem.matching_page_text = None
    /\ ResolvedItem.text_before = None
    /\ ResolvedItem.text_after = None

\* C3: no exact block, some containing block, a goto coordinate: the matched
\* block contains the title and no containing block has its top-y nearer to
\* the target y; the tier is APPROX_MATCH_CLOSEST_TO_TARGET
C3_ProximityFallback ==
  (InStageA /\ ExactIdx = {} /\ ContainingIdx /= {}
     /\ HasGotoCoordinate(ResolvedItem)) =>
    LET y == Val(ResolvedItem.link_data.to).y
    IN /\ ResolvedItem.heading_found_in_text
       /\ IsSet(matched)
       /\ MatchedIdx \in ContainingIdx
       /\ \A k \in ContainingIdx : Abs(TopY(MatchedIdx) - y) <= Abs(TopY(k) - y)
       /\ ResolvedItem.match_reason = "APPROX_MATCH_CLOSEST_TO_TARGET"
       /\ ResolvedItem.matching_page_text = Some(blocks[MatchedIdx].full_block_text)

\* two containing blocks, the later one nearer to the target
C3_Witness ==
  /\ InStageA
  /\ ExactIdx = {}
  /\ HasGotoCoordinate(ResolvedItem)
  /\ IsSet(matched)
  /\ ResolvedItem.match_reason = "APPROX_MATCH_CLOSEST_TO_TARGET"
  /\ \E k \in ContainingIdx :
       /\ k < MatchedIdx
       /\ Abs(TopY(MatchedIdx) - Val(ResolvedItem.link_data.to).y)
            < Abs(TopY(k) - Val(ResolvedItem.link_data.to).y)

NonEmptyIdx == {k \in 1..Len(blocks) : Strip(blocks[k].full_block_text) /= <<>>}
NearestBefore(m) ==
  LET c == {k \in NonEmptyIdx : k < m}
  IN IF c = {} THEN None
     ELSE Some(blocks[CHOOSE k \in c : \A j \in c : j <= k].full_block_text)
NearestAfter(m) ==
  LET c == {k \in NonEmptyIdx : k > m}
  IN IF c = {} THEN None
     ELSE Some(blocks[CHOOSE k \in c : \A j \in c : k <= j].full_block_text)

\* C4: on every resolution text_before is the text of the nearest preceding
\* block with non-empty text (unset if there is none), text_after likewise
\* forward; a captured context is never the empty string
C4_ContextSkipsEmptyBlocks ==
  (InStageA /\ ResolvedItem.heading_found_in_text) =>
    /\ ResolvedItem.text_before = NearestBefore(MatchedIdx)
    /\ ResolvedItem.text_after = NearestAfter(MatchedIdx)
    /\ ResolvedItem.text_before /= Some(<<>>)
    /\ ResolvedItem.text_after /= Some(<<>>)

\* add_headings: the entry of the iteration just finished / about to run
InStageB == pc = "add_headings" /\ stage_b_done >= 1
LocatedItem == toc[stage_b_done]
NextItem == toc[stage_b_done + 1]
AboutToLocate == pc = "add_headings" /\ stage_b_done < Len(toc)
PageLines(e) == SplitLines(PyIndex(doc_text, e.page_num - 1))
CandidateIdx(e) ==
  {i \in 0..(Len(PageLines(e)) - 1) : Contains(PageLines(e)[i + 1], e.text)}
StatusRecorded(status, e) ==
  \E i \in 1..Len(process_report.per_toc_item) :
    /\ process_report.per_toc_item[i].status = status
    /\ process_report.per_toc_item[i].text = e.text
SumCounts ==
  process_report.status_counts[SUCCESS]
    + process_report.status_counts[FAILED_TOC_ITEM_NOT_FOUND]
    + process_report.status_counts[FAILED_TOC_ITEM_NOT_MATCHED]

\* C5: a resolved entry with candidate lines is located at the candidate with
\* the highest composite score, the lowest index on a tie, and its outcome
\* is recorded as SUCCESS
C5_BestCandidateRecordedSuccess ==
  (InStageB /\ located.path = "LOCATED") =>
    /\ IsSet(located.heading_location)
    /\ \E k \in 1..Len(located.locations) :
         /\ located.locations[k] = Val(located.heading_location)
         /\ \A j \in 1..Len(located.locations) :
              /\ ~FracLess(located.scores[k], located.scores[j])
              /\ FracEq(located.scores[k], located.scores[j]) => k <= j
    /\ process_report.status_counts[SUCCESS] >= 1
    /\ StatusRecorded(SUCCESS, LocatedItem)

\* C6: when add_headings has processed the entries, the three counts sum to
\* the number of entries, there is one record per entry in ToC order, and
\* the annotated text and the report are returned
C6_ReportCoversEveryEntry ==
  pc = "add_headings_returned" =>
    /\ SumCounts = Len(toc)
    /\ Len(process_report.per_toc_item) = Len(toc)
    /\ \A i \in 1..Len(process_report.per_toc_item) :
         /\ process_report.per_toc_item[i].status \in TocItemStatus
         /\ process_report.per_toc_item[i].text = toc[i].text
    /\ IsSet(result)

\* C7: an entry left unresolved by extract_headings_from_toc gets no page
\* lookup, no candidate search and no scoring; exactly the
\* FAILED_TOC_ITEM_NOT_FOUND count grows by one and exactly one record with
\* that status is appended
C7_UnresolvedIsNotFound ==
  [][(AboutToLocate /\ ~NextItem.heading_found_in_text) =>
       /\ ~located'.page_read
       /\ located'.locations = <<>>
       /\ located'.calls = <<>>
       /\ process_report'.status_counts =
            [process_report.status_counts EXCEPT
               ![FAILED_TOC_ITEM_NOT_FOUND] = @ + 1]
       /\ process_report'.per_toc_item =
            Append(process_report.per_toc_item,
                   ReportRecord(FAILED_TOC_ITEM_NOT_FOUND, NextItem))
       /\ pc' = "add_headings"]_vars

\* an unresolved entry was reported although its title is on the page text
C7_Witness ==
  /\ InStageB
  /\ ~LocatedItem.heading_found_in_text
  /\ located.path = "NOT_FOUND"
  /\ CandidateIdx(LocatedItem) /= {}
  /\ process_report.status_counts[FAILED_TOC_ITEM_NOT_FOUND] >= 1
  /\ StatusRecorded(FAILED_TOC_ITEM_NOT_FOUND, LocatedItem)

\* C8: a resolved entry whose raw title is in no line of its page's plain
\* text ends FAILED_TOC_ITEM_NOT_MATCHED: that count grows by one, one record
\* with that status is appended, nothing is scored, and it is never SUCCESS
C8_NoCandidateIsNotMatched ==
  [][(AboutToLocate /\ NextItem.heading_found_in_text
        /\ PyIndexOk(doc_text, NextItem.page_num - 1)
        /\ CandidateIdx(NextItem) = {}) =>
       /\ located'.calls = <<>>
       /\ located'.heading_location = None
       /\ process_report'.status_counts =
            [process_report.status_counts EXCEPT
               ![FAILED_TOC_ITEM_NOT_MATCHED] = @ + 1]
       /\ process_report'.per_toc_item =
            Append(process_report.per_toc_item,
                   ReportRecord(FAILED_TOC_ITEM_NOT_MATCHED, NextItem))
       /\ pc' = "add_headings"]_vars

\* a resolved entry, a page text with lines, none holding the raw title
C8_Witness ==
  /\ InStageB
  /\ LocatedItem.heading_found_in_text
  /\ located.path = "NOT_MATCHED"
  /\ Len(PageLines(LocatedItem)) >= 2
  /\ process_report.status_counts[FAILED_TOC_ITEM_NOT_MATCHED] >= 1
  /\ StatusRecorded(FAILED_TOC_ITEM_NOT_MATCHED, LocatedItem)

\* C9: jaccard_sim of two empty token sets is 0.0 and does not fail
C9_EmptySetsScoreZero ==
  \A i \in 1..Len(located.calls) :
    (located.calls[i].set1 = {} /\ located.calls[i].set2 = {}) =>
      /\ ~located.calls[i].result.raises
      /\ located.calls[i].result.value[1] = 0

\* C10: no entry makes add_headings raise, an empty title or a blank line
\* included: the loop goes on to the next entry whatever the earlier ones
\* came to
C10_NoEntryAbortsTheRun ==
  /\ error \notin {"ZeroDivisionError", "IndexError"}
  /\ pc = "add_headings_returned" => stage_b_done = Len(toc)

\* C11: when pdftotext exits with a non-zero status the run ends with the
\* raised RuntimeError: no page list is returned, nothing is retried,
\* add_headings is not entered and the output file is not written
C11_ExtractorFailureAborts ==
  (IsSet(returncode) /\ Val(returncode) /= 0) =>
    /\ pc = "raised"
    /\ error = "RuntimeError"
    /\ doc_text = <<>>
    /\ stage_b_done = 0
    /\ located = NoLocals
    /\ process_report = EmptyReport
    /\ result = None
    /\ output = None

\* the extractor failed for a document whose ToC entry had been resolved
C11_Witness ==
  /\ IsSet(returncode)
  /\ Val(returncode) /= 0
  /\ pc = "raised"
  /\ Len(toc) >= 1
  /\ toc[1].heading_found_in_text

SameDeclaration(e, row) ==
  /\ e.heading_level = row.heading_level
  /\ e.text = row.text
  /\ e.page_num = row.page_num
  /\ e.link_data = row.link_data
Unwritten(e) ==
  /\ ~e.heading_found_in_text
  /\ e.match_reason = "None"
  /\ e.text_before = None
  /\ e.matching_page_text = None
  /\ e.text_after = None

\* C12: through the whole run every entry keeps its declared level, title,
\* page_num and link target; an entry's other fields are written only by the
\* iteration of extract_headings_from_toc that is on that entry, when they
\* were still unwritten, and by nothing else (add_headings writes no entry)
C12_DeclaredFieldsKeptEnrichmentOnce ==
  [][IF pc = "open"
     THEN /\ Len(toc') = Len(doc.toc)
          /\ \A i \in 1..Len(toc') :
               SameDeclaration(toc'[i], doc.toc[i]) /\ Unwritten(toc'[i])
     ELSE /\ Len(toc') = Len(toc)
          /\ \A i \in 1..Len(toc) :
               /\ SameDeclaration(toc'[i], toc[i])
               /\ toc'[i] /= toc[i] =>
                    /\ pc = "extract_headings_from_toc"
                    /\ i = stage_a_done + 1
                    /\ Unwritten(toc[i])]_vars

\* both stages have passed two entries with different titles, the first
\* resolved through normalisation to a block that differs from its title
C12_Witness ==
  /\ pc = "add_headings"
  /\ Len(toc) = 2
  /\ stage_b_done = 2
  /\ toc[1].heading_found_in_text
  /\ toc[1].matching_page_text /= Some(toc[1].text)
  /\ toc[2].text /= toc[1].text
  /\ toc[2].match_reason /= "None"

====
